---- MODULE Spec2Model ----
(***************************************************************************)
(* Model of accessibility_tracker_prototype.py: the MBTA accessibility     *)
(* tracker.  Four independent call trees are modelled, each under its own  *)
(* specification:                                                          *)
(*   SpecReconcile  build_accessibility_status / get_data_for_app          *)
(*   SpecRoute      fetch_route_alerts, generate_station_report,           *)
(*                  _query_ollama                                          *)
(*   SpecPrompt     _build_station_prompt                                  *)
(*   SpecDuration   _format_duration                                       *)
(*                                                                         *)
(* Conventions.  A Python dict is a sequence of [k, v] pairs in insertion  *)
(* order.  A JSON object is a record; d.get(k, x) is Get(d, k, x).  A      *)
(* string whose characters the code inspects is the sequence of its        *)
(* characters; a string it only copies, compares or interpolates is a      *)
(* single value, and a text built by interpolation is the sequence of its  *)
(* pieces.  None is "None" for a value, NoneText for a string of           *)
(* characters and NoneRec for an object.                                   *)
(***************************************************************************)
EXTENDS Integers, Sequences, FiniteSets, TLC

VARIABLES
    entry,              \* the function the caller invoked
    pc,                 \* position in the invoked function
    facilities_data,    \* response of GET /facilities
    alerts_data,        \* response of GET /alerts (accessibility alerts)
    stops_lookup,       \* dict stop id -> name and coordinates
    alert_i,            \* number of alerts the marking loop has processed
    station_counts,     \* dict stop id -> counts
    facilities,         \* dict facility id -> facility record
    stations,           \* list of station records
    stop_id,            \* argument of fetch_route_alerts / station_id
    requests,           \* the HTTP requests issued so far, in order
    routes_resp,        \* what GET /routes answered
    alerts_resp,        \* what GET /alerts?filter[route] answered
    route_ids,          \* local of fetch_route_alerts
    service_alerts,     \* local of fetch_route_alerts / argument of the prompt
    station_name,       \* argument of _build_station_prompt
    station_facilities, \* argument of _build_station_prompt
    prompt,             \* the prompt generate_station_report built
    ollama_resp,        \* what POST /api/generate answered
    ret,                \* the value returned to the caller
    exc,                \* the exception in flight, by its str(), None when there is none
    utcnow,             \* the system clock, seconds after 2024-01-01T00:00:00 UTC
    prompts,            \* the prompts _build_station_prompt returned, in call order
    iso_timestamp,      \* argument of _format_duration
    start               \* local of _format_duration

reconcileVars == <<facilities_data, alerts_data, stops_lookup, alert_i, station_counts>>
dataVars == <<facilities, stations>>
routeVars == <<stop_id, requests, routes_resp, alerts_resp, route_ids, service_alerts>>
reportVars == <<station_name, station_facilities, prompt, ollama_resp>>
resultVars == <<ret, exc>>
envVars == <<utcnow>>
durationVars == <<prompts, iso_timestamp, start>>

vars == <<entry, pc, reconcileVars, dataVars, routeVars, reportVars, resultVars,
          envVars, durationVars>>

----------------------------------------------------------------------------
(* Bounds of the model *)

MaxAlerts == 2
MaxRouteAlerts == 2
MaxOutOfService == 3
MaxOperational == 7
MaxCalls == 2

----------------------------------------------------------------------------
(* Python values *)

None == "None"
NoneText == <<"None">>
NoneRec == [none |-> TRUE]
NoneTime == [kind |-> "none"]

\* the text "YYYY-MM-DDTHH:MM:SS" + suffix: wall is the date-time the first 19
\* characters spell, in seconds after 2024-01-01T00:00:00; suffix is the UTC
\* offset the text ends with ("" when it has none)
Iso(wall, suffix) == [kind |-> "iso", wall |-> wall, suffix |-> suffix]

Get(d, k, default) == IF k \in DOMAIN d THEN d[k] ELSE default

SeqsUpTo(S, n) == UNION {[1..m -> S] : m \in 0..n}

RECURSIVE DictIndex(_, _, _)
DictIndex(d, k, i) ==
    IF i > Len(d) THEN 0
    ELSE IF d[i].k = k THEN i
    ELSE DictIndex(d, k, i + 1)

DictHas(d, k) == DictIndex(d, k, 1) # 0

DictGet(d, k, default) ==
    IF DictHas(d, k) THEN d[DictIndex(d, k, 1)].v ELSE default

DictSet(d, k, v) ==
    IF DictHas(d, k)
    THEN [d EXCEPT ![DictIndex(d, k, 1)] = [k |-> k, v |-> v]]
    ELSE Append(d, [k |-> k, v |-> v])

DictValues(d) == [i \in 1..Len(d) |-> d[i].v]

----------------------------------------------------------------------------
(* Reconciliation: build_accessibility_status and get_data_for_app *)

RECURSIVE extract_loop(_, _, _)
extract_loop(informed_entities, i, facility_ids) ==
    IF i > Len(informed_entities) THEN facility_ids
    ELSE extract_loop(informed_entities, i + 1,
            IF "facility" \in DOMAIN informed_entities[i]
            THEN Append(facility_ids, informed_entities[i].facility)
            ELSE facility_ids)

extract_facility_ids_from_alert(alert) ==
    extract_loop(Get(Get(alert, "attributes", <<>>), "informed_entity", <<>>),
                 1, <<>>)

\* stops_lookup of build_accessibility_status: stop id -> name
RECURSIVE stops_lookup_names(_, _, _)
stops_lookup_names(included, i, lookup) ==
    IF i > Len(included) THEN lookup
    ELSE stops_lookup_names(included, i + 1,
            IF included[i].type = "stop"
            THEN DictSet(lookup, included[i].id,
                         Get(included[i].attributes, "name", "Unknown"))
            ELSE lookup)

\* stops_lookup of get_data_for_app: stop id -> name, latitude, longitude
RECURSIVE stops_lookup_coords(_, _, _)
stops_lookup_coords(included, i, lookup) ==
    IF i > Len(included) THEN lookup
    ELSE stops_lookup_coords(included, i + 1,
            IF included[i].type = "stop"
            THEN LET attrs == Get(included[i], "attributes", <<>>)
                 IN  DictSet(lookup, included[i].id,
                        [name |-> Get(attrs, "name", "Unknown"),
                         latitude |-> Get(attrs, "latitude", None),
                         longitude |-> Get(attrs, "longitude", None)])
            ELSE lookup)

station_name_of(e, lookup, sid) ==
    IF e = "build_accessibility_status"
    THEN DictGet(lookup, sid, "Unknown")
    ELSE Get(DictGet(lookup, sid, <<>>), "name", "Unknown")

\* "x is None", x an object or None
IsNone(x) == "none" \in DOMAIN x

\* item.get("relationships", {}).get("stop", {}).get("data", {}), step by step:
\* a key that is absent gives {}, a key whose value is null gives None
relationships_of(item) == Get(item, "relationships", <<>>)

stop_of(item) == Get(relationships_of(item), "stop", <<>>)

data_of(item) == Get(stop_of(item), "data", <<>>)

\* one of the .get calls of the chain is made on None: AttributeError
stop_chain_raises(item) ==
    IsNone(relationships_of(item)) \/ IsNone(stop_of(item)) \/ IsNone(data_of(item))

\* stop_id = item.get("relationships", {}).get("stop", {}).get("data", {}).get("id")
stop_id_of(item) == Get(data_of(item), "id", None)

new_facility_defaulted_out(e, item, lookup) ==
    [id |-> item.id,
     type |-> Get(item.attributes, "type", NoneText),
     name |-> Get(item.attributes, "long_name", None),
     short_name |-> Get(item.attributes, "short_name", None),
     stop_id |-> stop_id_of(item),
     station_name |-> station_name_of(e, lookup, stop_id_of(item)),
     status |-> "out_of_service",
     alert |-> NoneRec]

new_facility(e, item, lookup) ==
    [id |-> item.id,
     type |-> Get(item.attributes, "type", NoneText),
     name |-> Get(item.attributes, "long_name", None),
     short_name |-> Get(item.attributes, "short_name", None),
     stop_id |-> stop_id_of(item),
     station_name |-> station_name_of(e, lookup, stop_id_of(item)),
     status |-> "operational",
     alert |-> NoneRec]

\* the inventory loop raises at the first item whose chain raises
inventory_raises(data) == \E i \in 1..Len(data) : stop_chain_raises(data[i])

\* "for item in facilities_data.get('data', [])", no item raising
RECURSIVE inventory_loop(_, _, _, _, _)
inventory_loop(e, data, lookup, i, facs) ==
    IF i > Len(data) THEN facs
    ELSE inventory_loop(e, data, lookup, i + 1,
            DictSet(facs, data[i].id, new_facility(e, data[i], lookup)))

outage_start_of(active_periods) ==
    IF Len(active_periods) > 0
    THEN Get(active_periods[1], "start", NoneTime)
    ELSE NoneTime

alert_summary_of(alert) ==
    LET alert_attrs == alert.attributes
        active_periods == Get(alert_attrs, "active_period", <<>>)
    IN  [id |-> alert.id,
         header |-> Get(alert_attrs, "header", None),
         description |-> Get(alert_attrs, "description", NoneText),
         severity |-> Get(alert_attrs, "severity", None),
         cause |-> Get(alert_attrs, "cause", None),
         effect |-> Get(alert_attrs, "effect", None),
         updated_at |-> Get(alert_attrs, "updated_at", None),
         active_period |-> active_periods,
         outage_start |-> outage_start_of(active_periods)]

mark_first_wins(facs, facility_id, alert_summary) ==
    IF DictHas(facs, facility_id)
       /\ DictGet(facs, facility_id, NoneRec).status = "operational"
    THEN DictSet(facs, facility_id,
            [DictGet(facs, facility_id, NoneRec) EXCEPT
                !.status = "out_of_service", !.alert = alert_summary])
    ELSE facs

mark_facility(facs, facility_id, alert_summary) ==
    IF DictHas(facs, facility_id)
    THEN DictSet(facs, facility_id,
            [DictGet(facs, facility_id, NoneRec) EXCEPT
                !.status = "out_of_service", !.alert = alert_summary])
    ELSE facs

RECURSIVE mark_loop(_, _, _, _)
mark_loop(facs, affected_facility_ids, alert_summary, i) ==
    IF i > Len(affected_facility_ids) THEN facs
    ELSE mark_loop(mark_facility(facs, affected_facility_ids[i], alert_summary),
                   affected_facility_ids, alert_summary, i + 1)

RECURSIVE count_loop(_, _, _)
count_loop(fs, i, counts) ==
    IF i > Len(fs) THEN counts
    ELSE LET sid == fs[i].stop_id
             c0 == DictGet(counts, sid, [operational |-> 0, out_of_service |-> 0])
             c1 == IF fs[i].status = "operational"
                   THEN [c0 EXCEPT !.operational = @ + 1]
                   ELSE [c0 EXCEPT !.out_of_service = @ + 1]
         IN  count_loop(fs, i + 1, DictSet(counts, sid, c1))

skip_station_if_both_missing(lat, lon) == lat = None /\ lon = None

skip_station(lat, lon) == lat = None \/ lon = None

RECURSIVE stations_loop(_, _, _, _)
stations_loop(lookup, counts, i, out) ==
    IF i > Len(lookup) THEN out
    ELSE LET sid == lookup[i].k
             info == lookup[i].v
             lat == Get(info, "latitude", None)
             lon == Get(info, "longitude", None)
             c == DictGet(counts, sid,
                          [operational |-> 0, out_of_service |-> 0])
         IN  stations_loop(lookup, counts, i + 1,
                IF skip_station(lat, lon) THEN out
                ELSE Append(out,
                        [id |-> sid, name |-> info.name,
                         lat |-> lat, lon |-> lon,
                         n_operational |-> c.operational,
                         n_out_of_service |-> c.out_of_service]))

----------------------------------------------------------------------------
(* Text.  A string whose characters the code inspects (str.lower, str.strip, *)
(* slicing, the substring test) is the sequence of its characters; the       *)
(* characters of the model are the ASCII characters.  A string the code only *)
(* copies, compares or interpolates is a single value.                       *)

Truthy(x) == x # None /\ x # ""

TruthyText(t) == t # NoneText /\ t # <<>>

OrEmpty(x) == IF Truthy(x) THEN x ELSE ""

OrEmptyText(t) == IF TruthyText(t) THEN t ELSE <<>>

UpperCase ==
    <<"A", "B", "C", "D", "E", "F", "G", "H", "I", "J", "K", "L", "M",
      "N", "O", "P", "Q", "R", "S", "T", "U", "V", "W", "X", "Y", "Z">>

LowerCase ==
    <<"a", "b", "c", "d", "e", "f", "g", "h", "i", "j", "k", "l", "m",
      "n", "o", "p", "q", "r", "s", "t", "u", "v", "w", "x", "y", "z">>

\* the lower-case letter of each upper-case letter
LowerOf ==
    [c \in {UpperCase[i] : i \in 1..Len(UpperCase)} |->
        LowerCase[CHOOSE i \in 1..Len(UpperCase) : UpperCase[i] = c]]

\* str.lower() on one character
LowerChar(c) == IF c \in DOMAIN LowerOf THEN LowerOf[c] ELSE c

\* str.lower()
Lower(t) == [i \in 1..Len(t) |-> LowerChar(t[i])]

\* the characters str.strip() removes: blank, \t, \n, \r, \f and the control
\* characters 0x0b, 0x1c, 0x1d, 0x1e, 0x1f, written by their names
Whitespace ==
    {" ", "\t", "\n", "\r", "\f", "<<VT>>", "<<FS>>", "<<GS>>", "<<RS>>", "<<US>>"}

IsBlank(c) == c \in Whitespace

\* str.strip(): leading and trailing whitespace removed
Strip(t) ==
    IF \A i \in 1..Len(t) : IsBlank(t[i]) THEN <<>>
    ELSE SubSeq(t, CHOOSE i \in 1..Len(t) :
                       ~IsBlank(t[i]) /\ \A j \in 1..(i - 1) : IsBlank(t[j]),
                   CHOOSE i \in 1..Len(t) :
                       ~IsBlank(t[i]) /\ \A j \in (i + 1)..Len(t) : IsBlank(t[j]))

\* pat in t
Contains(t, pat) ==
    \E i \in 0..(Len(t) - Len(pat)) : \A k \in 1..Len(pat) : t[i + k] = pat[k]

\* sep.join(lines)
RECURSIVE Join(_, _)
Join(lines, sep) ==
    IF lines = <<>> THEN <<>>
    ELSE IF Len(lines) = 1 THEN lines[1]
    ELSE lines[1] \o <<sep>> \o Join(Tail(lines), sep)

\* t[:n]
Truncate(t, n) == SubSeq(t, 1, IF Len(t) < n THEN Len(t) ELSE n)

----------------------------------------------------------------------------
(* _format_duration *)

SecondsPerMinute == 60
MinutesPerHour == 60
HoursPerDay == 24
DaysShownAsDays == 30
MonthsShownAsMonths == 12
\* 30.44 days and 365.25 days, in hundredths of a day
MonthCentiDays == 3044
YearCentiDays == 36525

SecondsPerHour == SecondsPerMinute * MinutesPerHour
SecondsPerDay == SecondsPerHour * HoursPerDay
SecondsPerMonth == MonthCentiDays * (SecondsPerDay \div 100)
SecondsPerYearTwentieth == (YearCentiDays * (SecondsPerDay \div 100)) \div 20

\* days / 30.44 is a division of binary floating-point numbers: for these whole
\* numbers k of months, (k * 30.44) / 30.44 comes out just below k.  The code
\* uses int(months) below 12 months only, so the list ends at 12.
InexactMonthMultiples == {1, 2, 3, 4, 6, 8, 9, 11, 12}

\* years at an odd multiple m of a twentieth is a tie for the format ".1f"; for
\* these m the binary number days / 365.25 lies below the tie and is rounded
\* down, for every other odd m it is rounded up.  The list holds every such m
\* of an elapsed time below 2^31 seconds.
TiesBelowHalf ==
    {
      23, 25, 31, 37, 41, 43, 45, 51, 53, 57, 59, 65, 67, 69,
      77, 79, 81, 85, 87, 91, 97, 101, 105, 107, 111, 113, 119, 123,
      125, 129, 133, 139, 143, 145, 149, 153, 159, 165, 167, 169, 177, 179,
      185, 187, 189, 197, 199, 205, 207, 209, 217, 219, 225, 231, 233, 241,
      243, 245, 251, 253, 261, 263, 265, 271, 273, 281, 283, 285, 291, 293,
      301, 303, 305, 311, 313, 323, 325, 329, 333, 339, 343, 345, 349, 353,
      359, 363, 365, 369, 373, 379, 383, 385, 389, 393, 399, 403, 405, 409,
      413, 419, 423, 425, 429, 433, 439, 443, 445, 451, 457, 461, 465, 467,
      471, 477, 481, 485, 487, 491, 497, 501, 505, 507, 511, 517, 521, 525,
      527, 531, 537, 541, 545, 547, 551, 557, 561, 565, 567, 571, 577, 581,
      585, 587, 591, 597, 601, 605, 607, 611, 617, 621, 625, 627, 631, 637,
      641, 643, 645, 651, 653, 661, 663, 665, 671, 673, 681, 683, 685, 691,
      693, 701, 703, 705, 711, 713, 721, 723, 725, 731, 733, 741, 743, 745,
      751, 753, 761, 763, 765, 771, 773, 781, 783, 785, 791, 793, 801, 803,
      805, 811, 813, 821, 823, 825, 831, 833, 841, 843, 845, 851, 853, 861,
      863, 865, 871, 873, 881, 883, 885, 891, 893, 899, 905, 907, 909, 917,
      919, 925, 927, 929, 937, 939, 945, 947, 949, 957, 959, 965, 967, 969,
      977, 979, 985, 987, 989, 997, 999, 1005, 1007, 1009, 1017, 1019, 1025, 1027,
      1029, 1037, 1039, 1045, 1047, 1049, 1057, 1059, 1065, 1067, 1069, 1077, 1079, 1085,
      1087, 1089, 1097, 1099, 1105, 1107, 1109, 1117, 1119, 1125, 1127, 1129, 1137, 1139,
      1145, 1147, 1149, 1157, 1159, 1165, 1167, 1169, 1177, 1179, 1185, 1187, 1189, 1197,
      1199, 1205, 1207, 1209, 1217, 1219, 1225, 1227, 1229, 1237, 1239, 1245, 1247, 1249,
      1257, 1259, 1265, 1267, 1269, 1277, 1279, 1281, 1285, 1287, 1291, 1297, 1301, 1305,
      1307, 1311, 1317, 1321, 1325, 1327, 1331, 1337, 1341, 1345, 1347, 1351, 1357 }

\* int(days / 30.44), seconds being a whole number of seconds
WholeMonths(seconds) ==
    IF seconds % SecondsPerMonth = 0
       /\ (seconds \div SecondsPerMonth) \in InexactMonthMultiples
    THEN (seconds \div SecondsPerMonth) - 1
    ELSE seconds \div SecondsPerMonth

\* f"{days / 365.25:.1f}", as a number of tenths
YearTenths(seconds) ==
    LET twentieths == seconds \div SecondsPerYearTwentieth
    IN  IF seconds % SecondsPerYearTwentieth = 0 /\ twentieths \in TiesBelowHalf
        THEN (twentieths - 1) \div 2
        ELSE (twentieths + 1) \div 2

\* f"{n} unit{'s' if n != 1 else ''}"
Plural(n, unit) ==
    IF n # 1 THEN <<ToString(n), " ", unit, "s">> ELSE <<ToString(n), " ", unit>>

\* the branches after "diff = datetime.utcnow() - start"
render_duration(seconds) ==
    IF seconds < 0 THEN <<"starting soon">>
    ELSE IF seconds < MinutesPerHour * SecondsPerMinute
    THEN Plural(seconds \div SecondsPerMinute, "minute")
    ELSE IF seconds < HoursPerDay * SecondsPerHour
    THEN Plural(seconds \div SecondsPerHour, "hour")
    ELSE IF seconds < DaysShownAsDays * SecondsPerDay
    THEN Plural(seconds \div SecondsPerDay, "day")
    ELSE IF WholeMonths(seconds) < MonthsShownAsMonths
    THEN Plural(WholeMonths(seconds), "month")
    ELSE <<ToString(YearTenths(seconds) \div 10), ".",
           ToString(YearTenths(seconds) % 10), " years">>

\* "not iso_timestamp"
is_absent(ts) == ts.kind \in {"none", "empty"}

\* datetime.fromisoformat(ts[:19]) returns a naive date-time
parses(ts) == ts.kind = "iso"

\* the first 19 characters, read as a naive date-time: the suffix is dropped
parse_start(ts) == ts.wall

_format_duration(ts, now) ==
    IF is_absent(ts) THEN NoneText
    ELSE IF parses(ts)
    THEN render_duration(now - parse_start(ts))
    ELSE NoneText

----------------------------------------------------------------------------
(* _build_station_prompt *)

\* sum(1 for f in station_facilities if <condition>), flags[i] being the
\* condition of the i-th facility
CountOf(flags) == Cardinality({i \in DOMAIN flags : flags[i]})

ELEVATOR == <<"E", "L", "E", "V", "A", "T", "O", "R">>

ESCALATOR == <<"E", "S", "C", "A", "L", "A", "T", "O", "R">>

\* f"{ftype} {fid}", ftype the type in lower case
short_id(f) ==
    Lower(OrEmptyText(Get(f, "type", NoneText))) \o <<" ">>
        \o OrEmptyText(Get(f, "id", NoneText))

\* the set out_of_service_ids
out_of_service_ids_of(fs) ==
    { short_id(fs[i]) :
        i \in { j \in 1..Len(fs) :
                  /\ Get(fs[j], "status", None) = "out_of_service"
                  /\ TruthyText(Get(fs[j], "type", NoneText))
                  /\ TruthyText(Get(fs[j], "id", NoneText)) } }

\* every order in which "for oos_id in out_of_service_ids" can yield the members
\* of the set: the order follows the string hashing of the interpreter
Orders(S) ==
    {o \in [1..Cardinality(S) -> S] : \A i, j \in 1..Cardinality(S) : i # j => o[i] # o[j]}

warning_text(oos_id) ==
    <<"\n  WARNING: These instructions reference ">> \o oos_id
        \o <<" which is ALSO out of service.">>

\* the identifier test without "and oos_id != this_id"
RECURSIVE warning_loop_own_id(_, _, _, _)
warning_loop_own_id(iteration, i, desc_lower, this_id) ==
    IF i > Len(iteration) THEN <<>>
    ELSE IF Contains(desc_lower, iteration[i])
    THEN warning_text(iteration[i])
    ELSE warning_loop_own_id(iteration, i + 1, desc_lower, this_id)

\* "for oos_id in out_of_service_ids: if ...: line += ...; break"
RECURSIVE warning_loop(_, _, _, _)
warning_loop(iteration, i, desc_lower, this_id) ==
    IF i > Len(iteration) THEN <<>>
    ELSE IF Contains(desc_lower, iteration[i]) /\ iteration[i] # this_id
    THEN warning_text(iteration[i])
    ELSE warning_loop(iteration, i + 1, desc_lower, this_id)

facility_name(f) ==
    IF Truthy(Get(f, "name", None)) THEN f.name
    ELSE IF Truthy(Get(f, "short_name", None)) THEN f.short_name
    ELSE ""

status_label(f) ==
    IF Get(f, "status", None) = "operational" THEN "OPERATIONAL" ELSE "OUT OF SERVICE"

\* the line of f calls datetime.utcnow(): f is not operational, has an alert, and
\* _format_duration gets past "not iso_timestamp" and fromisoformat
reads_clock(f) ==
    /\ Get(f, "status", None) # "operational"
    /\ Get(f, "alert", NoneRec) # NoneRec
    /\ ~is_absent(Get(f.alert, "outage_start", NoneTime))
    /\ parses(Get(f.alert, "outage_start", NoneTime))

\* the positions of the facilities whose lines read the clock
clock_readers(fs) == {i \in 1..Len(fs) : reads_clock(fs[i])}

\* what datetime.utcnow() returns to the line of the i-th facility: reads holds
\* the values of the calls of one _build_station_prompt, in call order
read_of(fs, reads, i) == reads[Cardinality({j \in clock_readers(fs) : j <= i})]

\* the text added to the line of a facility that is not operational and has an alert
alert_details(f, iteration, now) ==
    LET alert == f.alert
        duration == _format_duration(Get(alert, "outage_start", NoneTime), now)
        cause == Get(alert, "cause", "")
        desc == Strip(OrEmptyText(Get(alert, "description", NoneText)))
        this_id == short_id(f)
    IN  (IF TruthyText(duration) THEN <<" (down ">> \o duration \o <<")">> ELSE <<>>)
        \o (IF Truthy(cause) THEN <<"\n  Cause: ", cause>> ELSE <<>>)
        \o (IF Truthy(Get(alert, "header", None))
            THEN <<"\n  Alert: ", alert.header>> ELSE <<>>)
        \o (IF desc # <<>>
            THEN <<"\n  MBTA instructions: ">> \o desc
                 \o warning_loop(iteration, 1, Lower(desc), this_id)
            ELSE <<>>)

\* one element of facility_lines
facility_line(f, iteration, now) ==
    <<"- ">> \o f.type \o <<" \"", facility_name(f), "\": ", status_label(f)>>
    \o (IF Get(f, "status", None) # "operational" /\ Get(f, "alert", NoneRec) # NoneRec
        THEN alert_details(f, iteration, now)
        ELSE <<>>)

\* "for f in station_facilities": each line that reads the clock gets its own read
facility_lines_of(fs, iteration, reads) ==
    [i \in 1..Len(fs) |->
        facility_line(fs[i], iteration,
                      IF reads_clock(fs[i]) THEN read_of(fs, reads, i) ELSE 0)]

service_line(sa) ==
    <<"- [", sa.effect, "] ", sa.header>>
    \o (IF TruthyText(Get(sa, "description", NoneText))
        THEN <<"\n  Details: ">> \o Truncate(sa.description, 300)
        ELSE <<>>)

\* the fixed request that ends the prompt; "<<em dash>>" stands for the dash
prompt_request ==
    <<"In one short paragraph (3-5 sentences), tell me:\n",
      "1. Whether I can get from street to platform by elevator right now.\n",
      "2. If not, what exactly I should do instead ", "<<em dash>>",
      " use specific stop names, ",
      "bus routes, and distances from the MBTA instructions above. If any ",
      "instructions have a WARNING, skip them and use a working alternative.\n",
      "3. Any service disruptions (shuttles, closures) that affect my trip.\n\n",
      "Only use the data above. Write as if talking directly to me. ",
      "Start with the key information immediately ", "<<em dash>>",
      " no greeting or preamble.">>

IsElevator(f) == Get(f, "type", NoneText) = ELEVATOR
IsEscalator(f) == Get(f, "type", NoneText) = ESCALATOR
IsOut(f) == Get(f, "status", None) = "out_of_service"
IsElevatorOut(f) == IsElevator(f) /\ IsOut(f)

_build_station_prompt(name, fs, system_stats, alerts, order, reads) ==
    LET n_elevators == CountOf([i \in 1..Len(fs) |-> IsElevator(fs[i])])
        n_escalators == CountOf([i \in 1..Len(fs) |-> IsEscalator(fs[i])])
        n_out == CountOf([i \in 1..Len(fs) |-> IsOut(fs[i])])
        elevators_out == CountOf([i \in 1..Len(fs) |-> IsElevatorOut(fs[i])])
        facility_lines == facility_lines_of(fs, order, reads)
        facilities_block ==
            IF facility_lines # <<>> THEN Join(facility_lines, "\n") ELSE <<"(none)">>
        service_block ==
            IF alerts # <<>>
            THEN Join([i \in 1..Len(alerts) |-> service_line(alerts[i])],
                      "\n")
            ELSE <<"(none)">>
    IN  <<"I rely on escalators and elevators and I'm about to travel through ",
          name,
          " station. Give me a quick travel briefing based on this data.\n\n",
          "Elevators: ", ToString(n_elevators), " (", ToString(elevators_out),
          " out) | ", "Escalators: ", ToString(n_escalators), " (",
          ToString(n_out - elevators_out), " out)\n\n", "Facilities:\n">>
        \o facilities_block
        \o <<"\n\nService alerts:\n">>
        \o service_block
        \o <<"\n\n">> \o prompt_request

----------------------------------------------------------------------------
(* The upstream responses the reconciliation is run on *)

\* relationships of a facility at a stop, and of one whose stop is null
AtStop(stop) == [stop |-> [data |-> [type |-> "stop", id |-> stop]]]

NullStop == [stop |-> [data |-> NoneRec]]

FacilityItem(id, type, relationships) ==
    [id |-> id,
     attributes |-> [type |-> type, long_name |-> "Lobby elevator",
                     short_name |-> "Lobby"],
     relationships |-> relationships]

\* a facility item that has no "relationships"
LooseFacilityItem(id, type) ==
    [id |-> id, attributes |-> [type |-> type, short_name |-> "Lobby"]]

InventoryPool ==
    { <<>>,
      <<FacilityItem(<<"1">>, ELEVATOR, AtStop("s1"))>>,
      <<FacilityItem(<<"1">>, ELEVATOR, AtStop("s1")),
        FacilityItem(<<"2">>, ESCALATOR, AtStop("s1"))>>,
      <<FacilityItem(<<"1">>, ELEVATOR, AtStop("s1")),
        FacilityItem(<<"2">>, ESCALATOR, AtStop("s2"))>>,
      <<FacilityItem(<<"2">>, ELEVATOR, AtStop("s2")),
        LooseFacilityItem(<<"1">>, ESCALATOR)>>,
      <<FacilityItem(<<"1">>, ELEVATOR, AtStop("s1")),
        FacilityItem(<<"1">>, ELEVATOR, AtStop("s2"))>>,
      <<FacilityItem(<<"1">>, ELEVATOR, AtStop("s1")),
        FacilityItem(<<"2">>, ESCALATOR, NullStop)>> }

Stop(id, lat, lon) ==
    [type |-> "stop", id |-> id,
     attributes |-> [name |-> id, latitude |-> lat, longitude |-> lon]]

IncludedPool ==
    { <<>>,
      <<Stop("s1", "42.3", "-71.0"), Stop("s2", "42.4", "-71.1")>>,
      <<Stop("s1", None, "-71.0"), Stop("s2", "42.4", None)>>,
      <<[type |-> "line", id |-> "s2"], Stop("s2", None, None),
        Stop("s1", "42.3", "-71.0")>> }

EntityListPool ==
    { <<[facility |-> <<"1">>, stop |-> "s1"]>>,
      <<[facility |-> <<"2">>], [stop |-> "s1"], [facility |-> <<"1">>]>>,
      <<[facility |-> <<"9">>]>>,
      <<[stop |-> "s2", route |-> "Red"]>> }

AlertAttributePool ==
    { [header |-> "h1", description |-> <<"d", "1">>, severity |-> "3",
       cause |-> "MAINTENANCE", effect |-> "ELEVATOR_CLOSURE",
       updated_at |-> "u1",
       active_period |-> <<[start |-> Iso(0, "-05:00"), end |-> Iso(3600, "-05:00")],
                          [start |-> Iso(7200, "-05:00")]>>],
      [header |-> "h2", severity |-> "7", effect |-> "ESCALATOR_CLOSURE",
       active_period |-> <<[end |-> Iso(86400, "-04:00")]>>],
      [description |-> <<"d", "3">>, cause |-> "UNKNOWN_CAUSE", updated_at |-> "u3"] }

AlertId(attrs) == Get(attrs, "header", "a3")

AlertPool ==
    { [id |-> AlertId(a),
       attributes |-> [k \in DOMAIN a \cup {"informed_entity"} |->
                         IF k = "informed_entity" THEN es ELSE a[k]]] :
        a \in AlertAttributePool, es \in EntityListPool }

----------------------------------------------------------------------------
(* Reconciliation, step by step *)

NotReconciling == <<routeVars, reportVars, resultVars, envVars, durationVars>>

IdleReconcile ==
    /\ facilities_data = <<>>
    /\ alerts_data = <<>>
    /\ stops_lookup = <<>>
    /\ alert_i = 0
    /\ station_counts = <<>>

IdleRoute ==
    /\ stop_id = None
    /\ requests = <<>>
    /\ routes_resp = NoneRec
    /\ alerts_resp = NoneRec
    /\ route_ids = <<>>
    /\ service_alerts = <<>>

IdleReport ==
    /\ station_name = None
    /\ station_facilities = <<>>
    /\ prompt = NoneText
    /\ ollama_resp = NoneRec

IdleDuration ==
    /\ prompts = <<>>
    /\ iso_timestamp = NoneTime
    /\ start = 0

\* requests.get or requests.post raised instead of returning a response: a
\* failure of the transport, or an interrupt delivered during the blocking call
transport_failed(resp) == resp.transport # "ok"

\* Response.raise_for_status raises
raises_for_status(resp) == resp.status >= 400 /\ resp.status < 600

HttpResponse(status, body) == [transport |-> "ok", status |-> status, body |-> body]

TransportFailure(e) == [transport |-> e, status |-> 0, body |-> NoneRec]

\* what GET /facilities can answer
FacilitiesPool ==
    { TransportFailure("ConnectionError"), HttpResponse(500, NoneRec) }
    \cup { HttpResponse(200, [data |-> d, included |-> inc]) :
              d \in InventoryPool, inc \in IncludedPool }

\* what GET /alerts?filter[activity] can answer
AccessibilityAlertsPool ==
    { TransportFailure("ConnectionError"), HttpResponse(503, NoneRec) }
    \cup { HttpResponse(200, [data |-> a]) : a \in SeqsUpTo(AlertPool, MaxAlerts) }

InitReconcile ==
    /\ entry \in {"build_accessibility_status", "get_data_for_app"}
    /\ pc = "facilities_request"
    /\ facilities_data = <<>>
    /\ alerts_data = <<>>
    /\ stops_lookup = <<>>
    /\ facilities = <<>>
    /\ alert_i = 0
    /\ station_counts = <<>>
    /\ stations = <<>>
    /\ IdleRoute /\ IdleReport /\ IdleDuration
    /\ ret = <<>> /\ exc = None
    /\ utcnow = 0

\* fetch_facilities: requests.get(f"{BASE_URL}/facilities", ...)
RequestFacilities ==
    /\ pc = "facilities_request"
    /\ requests' = Append(requests,
          [method |-> "GET", url |-> "/facilities",
           filter |-> <<"ELEVATOR,ESCALATOR">>])
    /\ pc' = "facilities_response"
    /\ UNCHANGED <<entry, reconcileVars, dataVars, stop_id, routes_resp, alerts_resp,
                   route_ids, service_alerts, reportVars, resultVars, envVars,
                   durationVars>>

\* fetch_facilities: the answer, raise_for_status and response.json(); nothing
\* catches what is raised
FacilitiesResponse ==
    /\ pc = "facilities_response"
    /\ \E resp \in FacilitiesPool :
          IF transport_failed(resp) \/ raises_for_status(resp)
          THEN /\ exc' = IF transport_failed(resp) THEN resp.transport ELSE "HTTPError"
               /\ pc' = "raised"
               /\ UNCHANGED facilities_data
          ELSE /\ facilities_data' = resp.body
               /\ pc' = "alerts_request"
               /\ UNCHANGED exc
    /\ UNCHANGED <<entry, alerts_data, stops_lookup, alert_i, station_counts, dataVars,
                   routeVars, reportVars, ret, envVars, durationVars>>

\* fetch_accessibility_alerts: requests.get(f"{BASE_URL}/alerts", ...)
RequestAccessibilityAlerts ==
    /\ pc = "alerts_request"
    /\ requests' = Append(requests,
          [method |-> "GET", url |-> "/alerts",
           filter |-> <<"USING_WHEELCHAIR,USING_ESCALATOR">>])
    /\ pc' = "alerts_response"
    /\ UNCHANGED <<entry, reconcileVars, dataVars, stop_id, routes_resp, alerts_resp,
                   route_ids, service_alerts, reportVars, resultVars, envVars,
                   durationVars>>

\* fetch_accessibility_alerts: the answer, raise_for_status and response.json()
AccessibilityAlertsResponse ==
    /\ pc = "alerts_response"
    /\ \E resp \in AccessibilityAlertsPool :
          IF transport_failed(resp) \/ raises_for_status(resp)
          THEN /\ exc' = IF transport_failed(resp) THEN resp.transport ELSE "HTTPError"
               /\ pc' = "raised"
               /\ UNCHANGED alerts_data
          ELSE /\ alerts_data' = resp.body
               /\ pc' = "lookup"
               /\ UNCHANGED exc
    /\ UNCHANGED <<entry, facilities_data, stops_lookup, alert_i, station_counts,
                   dataVars, routeVars, reportVars, ret, envVars, durationVars>>

\* "for included in facilities_data.get('included', [])"
BuildStopsLookup ==
    /\ pc = "lookup"
    /\ stops_lookup' =
          IF entry = "build_accessibility_status"
          THEN stops_lookup_names(Get(facilities_data, "included", <<>>), 1, <<>>)
          ELSE stops_lookup_coords(Get(facilities_data, "included", <<>>), 1, <<>>)
    /\ pc' = "inventory"
    /\ UNCHANGED <<entry, facilities_data, alerts_data, alert_i, station_counts,
                   dataVars, NotReconciling>>

\* "for item in facilities_data.get('data', [])": the inventory, or the
\* AttributeError of an item whose stop chain passes through None
BuildInventory ==
    /\ pc = "inventory"
    /\ IF inventory_raises(Get(facilities_data, "data", <<>>))
       THEN /\ exc' = "'NoneType' object has no attribute 'get'"
            /\ pc' = "raised"
            /\ UNCHANGED facilities
       ELSE /\ facilities' = inventory_loop(entry, Get(facilities_data, "data", <<>>),
                                            stops_lookup, 1, <<>>)
            /\ pc' = "alerts"
            /\ UNCHANGED exc
    /\ UNCHANGED <<entry, reconcileVars, stations, routeVars, reportVars, ret, envVars,
                   durationVars>>

\* one iteration of "for alert in alerts_data.get('data', [])"
MarkAlert ==
    /\ pc = "alerts"
    /\ alert_i < Len(Get(alerts_data, "data", <<>>))
    /\ LET alert == Get(alerts_data, "data", <<>>)[alert_i + 1]
       IN  facilities' = mark_loop(facilities,
                                   extract_facility_ids_from_alert(alert),
                                   alert_summary_of(alert), 1)
    /\ alert_i' = alert_i + 1
    /\ UNCHANGED <<entry, pc, facilities_data, alerts_data, stops_lookup,
                   station_counts, stations, NotReconciling>>

\* build_accessibility_status returns the facilities
ReturnFacilities ==
    /\ pc = "alerts"
    /\ alert_i = Len(Get(alerts_data, "data", <<>>))
    /\ entry = "build_accessibility_status"
    /\ pc' = "done"
    /\ UNCHANGED <<entry, reconcileVars, dataVars, NotReconciling>>

\* "for f in facilities.values()": the counts of each stop
CountStations ==
    /\ pc = "alerts"
    /\ alert_i = Len(Get(alerts_data, "data", <<>>))
    /\ entry = "get_data_for_app"
    /\ station_counts' = count_loop(DictValues(facilities), 1, <<>>)
    /\ pc' = "stations"
    /\ UNCHANGED <<entry, facilities_data, alerts_data, stops_lookup, alert_i,
                   dataVars, NotReconciling>>

\* the stations list is built and get_data_for_app returns
BuildStations ==
    /\ pc = "stations"
    /\ stations' = stations_loop(stops_lookup, station_counts, 1, <<>>)
    /\ pc' = "done"
    /\ UNCHANGED <<entry, reconcileVars, facilities, NotReconciling>>

NextReconcile ==
    \/ RequestFacilities
    \/ FacilitiesResponse
    \/ RequestAccessibilityAlerts
    \/ AccessibilityAlertsResponse
    \/ BuildStopsLookup
    \/ BuildInventory
    \/ MarkAlert
    \/ ReturnFacilities
    \/ CountStations
    \/ BuildStations

SpecReconcile == InitReconcile /\ [][NextReconcile]_vars

----------------------------------------------------------------------------
(* fetch_route_alerts, _query_ollama and generate_station_report *)

keep_effects ==
    {"SHUTTLE", "SUSPENSION", "DETOUR", "SERVICE_CHANGE",
     "STOP_CLOSURE", "STOP_MOVE", "STATION_ISSUE"}

\* "if not route_ids" never taken
never_short_circuits(ids) == FALSE

\* "if not route_ids"
no_routes(ids) == ids = <<>>

\* the stop test passes as soon as the alert names any stop
names_some_stop(sid, entities) ==
    {entities[k].stop : k \in {j \in 1..Len(entities) : "stop" \in DOMAIN entities[j]}} # {}

\* "stop_id in stop_ids", stop_ids the set of the entities' "stop" values
names_stop(sid, entities) ==
    sid \in {entities[k].stop :
                k \in {j \in 1..Len(entities) : "stop" \in DOMAIN entities[j]}}

reduced_alert(attr) ==
    [header |-> Get(attr, "header", ""),
     effect |-> Get(attr, "effect", ""),
     description |-> Strip(OrEmptyText(Get(attr, "description", NoneText))),
     active_period |-> Get(attr, "active_period", <<>>)]

\* "for alert in alerts_resp.json().get('data', [])"
RECURSIVE filter_loop(_, _, _, _)
filter_loop(data, i, sid, out) ==
    IF i > Len(data) THEN out
    ELSE LET attr == data[i].attributes
             effect == Get(attr, "effect", "")
         IN  filter_loop(data, i + 1, sid,
                IF effect \notin keep_effects THEN out
                ELSE IF effect = "STATION_ISSUE"
                        /\ ~names_stop(sid, Get(attr, "informed_entity", <<>>))
                THEN out
                ELSE Append(out, reduced_alert(attr)))

\* the handler of generate_station_report lets a KeyError through
catches_request_errors(e) == e # "'response'"

\* the exceptions that derive from BaseException and not from Exception
NotExceptions == {"KeyboardInterrupt", "SystemExit", "GeneratorExit"}

\* "except Exception": what derives from Exception is caught, an interrupt of the
\* interpreter is not
handler_catches(e) == e \notin NotExceptions

RoutesPool ==
    { TransportFailure("ConnectionError"),
      TransportFailure("KeyboardInterrupt"),
      HttpResponse(500, NoneRec),
      HttpResponse(200, [data |-> <<>>]),
      HttpResponse(200, [jsonapi |-> "1.0"]),
      HttpResponse(200, [data |-> <<[id |-> "Red"]>>]),
      HttpResponse(200, [data |-> <<[id |-> "Red"], [id |-> "Orange"]>>]) }

RouteAlert(header, effect, entities, description) ==
    [id |-> header,
     attributes |-> [header |-> header, effect |-> effect,
                     description |-> description,
                     informed_entity |-> entities,
                     active_period |-> <<[start |-> Iso(0, "-05:00")]>>]]

RouteAlertPool ==
    { RouteAlert(e, e, <<[stop |-> "s1", route |-> "Red"]>>, <<" ", "b", "u", "s", "\t", "\n">>) :
        e \in (keep_effects \ {"STATION_ISSUE"}) \cup {"DELAY", "ELEVATOR_CLOSURE"} }
    \cup
    { RouteAlert("no entity", "STATION_ISSUE", <<>>, NoneText),
      RouteAlert("route only", "STATION_ISSUE", <<[route |-> "Red"]>>, NoneText),
      RouteAlert("at s2", "STATION_ISSUE", <<[stop |-> "s2"]>>, NoneText),
      RouteAlert("at s2 and s1", "STATION_ISSUE",
                 <<[stop |-> "s2", route |-> "Red"], [stop |-> "s1"]>>, NoneText) }
    \cup
    { [id |-> "bare", attributes |-> [header |-> "bare"]] }

AlertsPool ==
    { TransportFailure("ConnectionError"), HttpResponse(503, NoneRec),
      HttpResponse(200, [jsonapi |-> "1.0"]) }
    \cup { HttpResponse(200, [data |-> d]) : d \in SeqsUpTo(RouteAlertPool, MaxRouteAlerts) }

OllamaPool ==
    { TransportFailure("ConnectionError"),
      TransportFailure("ReadTimeout"),
      TransportFailure("KeyboardInterrupt"),
      TransportFailure("SystemExit"),
      HttpResponse(500, NoneRec),
      HttpResponse(404, [error |-> "model not found"]),
      HttpResponse(200, [error |-> "model not found"]),
      HttpResponse(200, [response |-> <<"Elevator 1 is out.">>]),
      HttpResponse(200, [response |-> <<>>]) }

\* the reconciled data a report is asked for
ReportData(inventory, included, alerts) ==
    LET lookup == stops_lookup_coords(included, 1, <<>>)
        RECURSIVE marked(_, _)
        marked(facs, i) ==
            IF i > Len(alerts) THEN facs
            ELSE marked(mark_loop(facs, extract_facility_ids_from_alert(alerts[i]),
                                  alert_summary_of(alerts[i]), 1), i + 1)
        facs == marked(inventory_loop("get_data_for_app", inventory, lookup, 1, <<>>), 1)
    IN  [facilities |-> facs,
         stations |-> stations_loop(lookup, count_loop(DictValues(facs), 1, <<>>),
                                    1, <<>>)]

ReportDataPool ==
    { ReportData(<<>>, <<>>, <<>>) }
    \cup
    { ReportData(<<FacilityItem(<<"1">>, ELEVATOR, AtStop("s1")),
                   FacilityItem(<<"2">>, ESCALATOR, AtStop(s))>>,
                 <<Stop("s1", "42.3", "-71.0"), Stop("s2", "42.4", "-71.1")>>,
                 a) :
        s \in {"s1", "s2"}, a \in SeqsUpTo({x \in AlertPool : x.id = "h1"}, 1) }

NowPool == {3 * SecondsPerDay, 4 * SecondsPerDay}

\* the values n successive calls of datetime.utcnow() can return when the clock
\* stands at "from": the clock does not go back between two calls
ClockReads(n, from) ==
    {r \in [1..n -> {t \in NowPool : t >= from}] : \A i \in 1..(n - 1) : r[i] <= r[i + 1]}

\* where the clock stands after the reads
clock_after(reads, from) == IF reads = <<>> THEN from ELSE reads[Len(reads)]

NotRouting == <<reconcileVars, dataVars, envVars, durationVars>>

InitRoute ==
    /\ entry \in {"fetch_route_alerts", "generate_station_report"}
    /\ pc = IF entry = "fetch_route_alerts" THEN "routes_request" ELSE "collect"
    /\ stop_id \in {"s1", "s2"}
    /\ \E d \in ReportDataPool :
          /\ facilities = IF entry = "fetch_route_alerts" THEN <<>> ELSE d.facilities
          /\ stations = IF entry = "fetch_route_alerts" THEN <<>> ELSE d.stations
    /\ requests = <<>>
    /\ routes_resp = NoneRec
    /\ alerts_resp = NoneRec
    /\ route_ids = <<>>
    /\ service_alerts = <<>>
    /\ IdleReconcile /\ IdleReport /\ IdleDuration
    /\ ret = <<>> /\ exc = None
    /\ utcnow \in NowPool

\* the first loop of generate_station_report
CollectFacilities ==
    /\ pc = "collect"
    /\ LET fs == DictValues(facilities)
           mine == {i \in 1..Len(fs) : Get(fs[i], "stop_id", None) = stop_id}
       IN  /\ station_facilities' = SelectSeq(fs, LAMBDA f : Get(f, "stop_id", None) = stop_id)
           /\ station_name' =
                 IF mine = {} THEN stop_id
                 ELSE Get(fs[CHOOSE i \in mine : \A j \in mine : j <= i],
                          "station_name", stop_id)
    /\ pc' = "routes_request"
    /\ UNCHANGED <<entry, routeVars, prompt, ollama_resp, resultVars, NotRouting>>

\* requests.get(f"{BASE_URL}/routes", params={"filter[stop]": stop_id})
RequestRoutes ==
    /\ pc = "routes_request"
    /\ requests' = Append(requests,
          [method |-> "GET", url |-> "/routes", filter |-> <<stop_id>>])
    /\ pc' = "routes_response"
    /\ UNCHANGED <<entry, stop_id, routes_resp, alerts_resp, route_ids, service_alerts,
                   reportVars, resultVars, NotRouting>>

\* the answer to GET /routes, raise_for_status, route_ids and "if not route_ids"
RoutesResponse ==
    /\ pc = "routes_response"
    /\ \E resp \in RoutesPool :
          /\ routes_resp' = resp
          /\ IF transport_failed(resp) \/ raises_for_status(resp)
             THEN /\ exc' = IF transport_failed(resp) THEN resp.transport ELSE "HTTPError"
                  /\ pc' = "raising"
                  /\ UNCHANGED <<route_ids, service_alerts, ret>>
             ELSE LET data == Get(resp.body, "data", <<>>)
                      ids == [i \in 1..Len(data) |-> data[i].id]
                  IN  /\ route_ids' = ids
                      /\ exc' = exc
                      /\ IF no_routes(ids)
                         THEN /\ pc' = IF entry = "fetch_route_alerts"
                                       THEN "done" ELSE "build_prompt"
                              /\ service_alerts' = <<>>
                              /\ ret' = <<>>
                         ELSE /\ pc' = "alerts_request"
                              /\ UNCHANGED <<service_alerts, ret>>
    /\ UNCHANGED <<entry, stop_id, requests, alerts_resp, reportVars, NotRouting>>

\* requests.get(f"{BASE_URL}/alerts", params={"filter[route]": ",".join(route_ids)})
RequestAlerts ==
    /\ pc = "alerts_request"
    /\ requests' = Append(requests,
          [method |-> "GET", url |-> "/alerts", filter |-> route_ids])
    /\ pc' = "alerts_response"
    /\ UNCHANGED <<entry, stop_id, routes_resp, alerts_resp, route_ids, service_alerts,
                   reportVars, resultVars, NotRouting>>

\* the answer to GET /alerts, raise_for_status, the filter loop and the return
AlertsResponse ==
    /\ pc = "alerts_response"
    /\ \E resp \in AlertsPool :
          /\ alerts_resp' = resp
          /\ IF transport_failed(resp) \/ raises_for_status(resp)
             THEN /\ exc' = IF transport_failed(resp) THEN resp.transport ELSE "HTTPError"
                  /\ pc' = "raising"
                  /\ UNCHANGED <<service_alerts, ret>>
             ELSE LET kept == filter_loop(Get(resp.body, "data", <<>>), 1, stop_id, <<>>)
                  IN  /\ service_alerts' = kept
                      /\ ret' = IF entry = "fetch_route_alerts" THEN kept ELSE ret
                      /\ exc' = exc
                      /\ pc' = IF entry = "fetch_route_alerts"
                               THEN "done" ELSE "build_prompt"
    /\ UNCHANGED <<entry, stop_id, requests, routes_resp, route_ids, reportVars,
                   NotRouting>>

SystemStats ==
    [total_stations |-> Len(stations),
     stations_with_outages |->
        Cardinality({i \in 1..Len(stations) : stations[i].n_out_of_service > 0}),
     total_facilities |-> Len(facilities),
     total_out_of_service |->
        Cardinality({i \in 1..Len(facilities) :
                        facilities[i].v.status = "out_of_service"})]

\* prompt = _build_station_prompt(...); the clock may move between the reads of
\* two facility lines
BuildPrompt ==
    /\ pc = "build_prompt"
    /\ \E order \in Orders(out_of_service_ids_of(station_facilities)),
          reads \in ClockReads(Cardinality(clock_readers(station_facilities)), utcnow) :
          /\ prompt' = _build_station_prompt(station_name, station_facilities,
                                             SystemStats, service_alerts, order, reads)
          /\ utcnow' = clock_after(reads, utcnow)
    /\ pc' = "ollama_post"
    /\ UNCHANGED <<entry, routeVars, station_name, station_facilities, ollama_resp,
                   resultVars, reconcileVars, dataVars, durationVars>>

\* requests.post("http://localhost:11434/api/generate", json=..., timeout=30)
PostOllama ==
    /\ pc = "ollama_post"
    /\ requests' = Append(requests,
          [method |-> "POST", url |-> "/api/generate", filter |-> prompt])
    /\ pc' = "ollama_response"
    /\ UNCHANGED <<entry, stop_id, routes_resp, alerts_resp, route_ids, service_alerts,
                   reportVars, resultVars, NotRouting>>

\* the answer of the generation backend, raise_for_status and resp.json()["response"]
OllamaResponse ==
    /\ pc = "ollama_response"
    /\ \E resp \in OllamaPool :
          /\ ollama_resp' = resp
          /\ IF transport_failed(resp) \/ raises_for_status(resp)
             THEN /\ exc' = IF transport_failed(resp) THEN resp.transport ELSE "HTTPError"
                  /\ pc' = "raising"
                  /\ ret' = ret
             ELSE IF "response" \notin DOMAIN resp.body
             THEN /\ exc' = "'response'"   \* str(KeyError('response'))
                  /\ pc' = "raising"
                  /\ ret' = ret
             ELSE /\ ret' = resp.body.response
                  /\ exc' = exc
                  /\ pc' = "done"
    /\ UNCHANGED <<entry, routeVars, station_name, station_facilities, prompt,
                   NotRouting>>

\* "except Exception as e: return f'__error__: {e}'"
ExceptHandler ==
    /\ pc = "raising"
    /\ entry = "generate_station_report"
    /\ handler_catches(exc)
    /\ ret' = <<"__error__: ", exc>>
    /\ exc' = None
    /\ pc' = "done"
    /\ UNCHANGED <<entry, routeVars, reportVars, NotRouting>>

\* no handler is left: the exception reaches the caller
Propagate ==
    /\ pc = "raising"
    /\ entry = "fetch_route_alerts" \/ ~handler_catches(exc)
    /\ pc' = "raised"
    /\ UNCHANGED <<entry, routeVars, reportVars, resultVars, NotRouting>>

NextRoute ==
    \/ CollectFacilities
    \/ RequestRoutes
    \/ RoutesResponse
    \/ RequestAlerts
    \/ AlertsResponse
    \/ BuildPrompt
    \/ PostOllama
    \/ OllamaResponse
    \/ ExceptHandler
    \/ Propagate

SpecRoute == InitRoute /\ [][NextRoute]_vars

----------------------------------------------------------------------------
(* _build_station_prompt, called on its own *)

OutageAlert(description, outage_start, cause) ==
    [id |-> "a1", header |-> "Elevator closed", description |-> description,
     severity |-> "3", cause |-> cause, effect |-> "ELEVATOR_CLOSURE",
     updated_at |-> "u1", active_period |-> <<[start |-> outage_start]>>,
     outage_start |-> outage_start]

\* "Use elevator 1\nor Elevator 2"
UseOneOrTwo ==
    <<"U", "s", "e", " ">> \o Lower(ELEVATOR) \o <<" ", "1", "\n", "o", "r", " ", "E">>
        \o Tail(Lower(ELEVATOR)) \o <<" ", "2">>

\* " use elevator 3\n"
UseThree == <<" ", "u", "s", "e", " ">> \o Lower(ELEVATOR) \o <<" ", "3", "\n">>

\* the out-of-service facility a station has at position i, in one of its variants
OutFacility(i, variant) ==
    [id |-> <<ToString(i)>>,
     type |-> IF variant = "escalator" THEN ESCALATOR ELSE ELEVATOR,
     name |-> IF variant = "no alert" THEN None ELSE "Lobby",
     short_name |-> "Platform",
     stop_id |-> "s1",
     station_name |-> "Park Street",
     status |-> "out_of_service",
     alert |->
        CASE variant = "one or two" ->
                OutageAlert(UseOneOrTwo, Iso(0, "-05:00"), "MAINTENANCE")
          [] variant = "escalator" -> OutageAlert(UseThree, NoneTime, None)
          [] variant = "blank" -> OutageAlert(<<" ", "\t">>, [kind |-> "text"], "")
          [] OTHER -> NoneRec]

Variants == {"one or two", "escalator", "blank", "no alert"}

OperationalFacility(j) ==
    [id |-> <<"1", "0", ToString(j)>>,
     type |-> IF j % 2 = 1 THEN ELEVATOR ELSE ESCALATOR,
     name |-> "Concourse", short_name |-> "Concourse",
     stop_id |-> "s1", station_name |-> "Park Street",
     status |-> "operational", alert |-> NoneRec]

StationFacilitiesPool ==
    { [i \in 1..Len(vs) |-> OutFacility(i, vs[i])] :
        vs \in SeqsUpTo(Variants, MaxOutOfService) }
    \cup
    { [i \in 1..Len(vs) |-> OutFacility(i, vs[i])]
        \o [j \in 1..k |-> OperationalFacility(j)] :
        vs \in SeqsUpTo(Variants, 1), k \in 1..MaxOperational }

ServiceAlertsPool ==
    { <<>>,
      <<[header |-> "Shuttle buses", effect |-> "SHUTTLE",
         description |-> [i \in 1..301 |-> "x"], active_period |-> <<>>],
        [header |-> "Detour", effect |-> "DETOUR", description |-> <<>>,
         active_period |-> <<>>]>> }

NotPrompting == <<reconcileVars, dataVars, routeVars, reportVars, resultVars,
                   iso_timestamp, start>>

InitPrompt ==
    /\ entry = "_build_station_prompt"
    /\ pc = "idle"
    /\ station_name = "Park Street"
    /\ station_facilities \in StationFacilitiesPool
    /\ service_alerts \in
          IF Len(station_facilities) <= 1 THEN ServiceAlertsPool ELSE {<<>>}
    /\ utcnow \in NowPool
    /\ prompts = <<>>
    /\ prompt = NoneText
    /\ ollama_resp = NoneRec
    /\ stop_id = None /\ requests = <<>> /\ routes_resp = NoneRec
    /\ alerts_resp = NoneRec /\ route_ids = <<>>
    /\ facilities = <<>> /\ stations = <<>>
    /\ IdleReconcile
    /\ iso_timestamp = NoneTime /\ start = 0
    /\ ret = <<>> /\ exc = None

\* one call of _build_station_prompt with the arguments at hand; the set
\* out_of_service_ids is iterated in the order the string hashing of the
\* interpreter the call runs in gives it, and every facility line that shows a
\* duration reads the clock for itself
CallBuildPrompt ==
    /\ entry = "_build_station_prompt"
    /\ Len(prompts) < MaxCalls
    /\ \E order \in Orders(out_of_service_ids_of(station_facilities)),
          reads \in ClockReads(Cardinality(clock_readers(station_facilities)), utcnow) :
          /\ prompts' = Append(prompts,
                _build_station_prompt(station_name, station_facilities, NoneRec,
                                      service_alerts, order, reads))
          /\ utcnow' = clock_after(reads, utcnow)
    /\ UNCHANGED <<entry, pc, station_name, station_facilities, service_alerts,
                   NotPrompting, prompt, ollama_resp, stop_id, requests,
                   routes_resp, alerts_resp, route_ids>>

\* time passes between two calls
ClockAdvances ==
    /\ entry = "_build_station_prompt"
    /\ \E t \in NowPool : t > utcnow /\ utcnow' = t
    /\ UNCHANGED <<entry, pc, routeVars, reportVars, reconcileVars, dataVars,
                   resultVars, durationVars>>

NextPrompt ==
    \/ CallBuildPrompt
    \/ ClockAdvances

SpecPrompt == InitPrompt /\ [][NextPrompt]_vars

----------------------------------------------------------------------------
(* _format_duration, called on its own *)

DurationNow == 50 * 1000 * 1000

ElapsedPool ==
    { -1, 0, 59, 60, 61, 119, 120, 3599, 3600, 3601, 7199, 7200, 86399, 86400, 86401,
      2 * 86400, 3 * 86400, 30 * 86400 - 1, 30 * 86400, 30 * 86400 + 1,
      2630015, 2630016, 2630017, 2 * 2630016, 5 * 2630016, 5 * 2630016 - 1,
      31557600, 31560191, 31560192, 31560193,
      21 * 1577880, 23 * 1577880, 25 * 1577880, 27 * 1577880, 29 * 1577880,
      31 * 1577880, 32 * 1577880,
      40 * 1000 * 1000, 18000, 17999, -18000, -18001 }

\* the UTC offsets the timestamps of the pool end with
Suffixes == {"", "Z", "-05:00", "+01:00"}

TimestampPool ==
    { NoneTime, [kind |-> "empty"], [kind |-> "text"] }
    \cup { Iso(DurationNow - e, sfx) : e \in ElapsedPool, sfx \in Suffixes }

InitDuration ==
    /\ entry = "_format_duration"
    /\ pc = "check"
    /\ iso_timestamp \in TimestampPool
    /\ utcnow = DurationNow
    /\ start = 0
    /\ prompts = <<>>
    /\ IdleReconcile /\ IdleRoute /\ IdleReport
    /\ facilities = <<>> /\ stations = <<>>
    /\ ret = <<>> /\ exc = None

NotTiming == <<reconcileVars, dataVars, routeVars, reportVars, envVars, prompts,
               iso_timestamp>>

\* "if not iso_timestamp: return None"
ReturnNoneIfAbsent ==
    /\ pc = "check"
    /\ is_absent(iso_timestamp)
    /\ ret' = NoneText
    /\ pc' = "done"
    /\ UNCHANGED <<entry, exc, start, NotTiming>>

\* start = datetime.fromisoformat(iso_timestamp[:19])
ParseTimestamp ==
    /\ pc = "check"
    /\ ~is_absent(iso_timestamp)
    /\ parses(iso_timestamp)
    /\ start' = parse_start(iso_timestamp)
    /\ pc' = "diff"
    /\ UNCHANGED <<entry, resultVars, NotTiming>>

\* fromisoformat raises; "except Exception: return None"
ParseRaises ==
    /\ pc = "check"
    /\ ~is_absent(iso_timestamp)
    /\ ~parses(iso_timestamp)
    /\ ret' = NoneText
    /\ pc' = "done"
    /\ UNCHANGED <<entry, exc, start, NotTiming>>

\* diff = datetime.utcnow() - start, and the branches on it
RenderDuration ==
    /\ pc = "diff"
    /\ ret' = render_duration(utcnow - start)
    /\ pc' = "done"
    /\ UNCHANGED <<entry, exc, start, NotTiming>>

NextDuration ==
    \/ ReturnNoneIfAbsent
    \/ ParseTimestamp
    \/ ParseRaises
    \/ RenderDuration

SpecDuration == InitDuration /\ [][NextDuration]_vars

----------------------------------------------------------------------------
(* Properties of the reconciliation *)

AlertsSeen == SubSeq(Get(alerts_data, "data", <<>>), 1, alert_i)

\* alert number i names facility fid in a "facility" entry of its informed entities
Refers(i, fid) ==
    LET es == Get(AlertsSeen[i].attributes, "informed_entity", <<>>)
    IN  \E k \in 1..Len(es) : "facility" \in DOMAIN es[k] /\ es[k].facility = fid

Referred(fid) == \E i \in 1..Len(AlertsSeen) : Refers(i, fid)

LastReferring(fid) ==
    CHOOSE i \in 1..Len(AlertsSeen) :
        Refers(i, fid) /\ \A j \in (i + 1)..Len(AlertsSeen) : ~Refers(j, fid)

Marking == pc \in {"alerts", "stations", "done"}

Returned == pc = "done"

\* C1: every facility of the inventory that an alert refers to is out of service
\* and carries the summary of the last alert, in input order, that refers to it:
\* each field of the summary is that alert's attribute, outage_start the start of
\* its first active period or null
C1_LastAlertWins ==
    Marking =>
        \A k \in 1..Len(facilities) :
            LET f == facilities[k].v
            IN  Referred(f.id) =>
                    LET a == AlertsSeen[LastReferring(f.id)]
                        periods == Get(a.attributes, "active_period", <<>>)
                    IN  /\ f.status = "out_of_service"
                        /\ f.alert # NoneRec
                        /\ f.alert.id = a.id
                        /\ f.alert.header = Get(a.attributes, "header", None)
                        /\ f.alert.description =
                              Get(a.attributes, "description", NoneText)
                        /\ f.alert.severity = Get(a.attributes, "severity", None)
                        /\ f.alert.cause = Get(a.attributes, "cause", None)
                        /\ f.alert.effect = Get(a.attributes, "effect", None)
                        /\ f.alert.updated_at = Get(a.attributes, "updated_at", None)
                        /\ f.alert.active_period = periods
                        /\ f.alert.outage_start =
                              IF periods = <<>> THEN NoneTime
                              ELSE IF "start" \in DOMAIN periods[1]
                              THEN periods[1].start ELSE NoneTime

\* two different alerts refer to one facility and the function has returned
C1_Witness ==
    /\ Returned
    /\ \E k \in 1..Len(facilities) : \E i, j \in 1..Len(AlertsSeen) :
          /\ i < j
          /\ Refers(i, facilities[k].k) /\ Refers(j, facilities[k].k)
          /\ AlertsSeen[i].id # AlertsSeen[j].id
          /\ facilities[k].v.alert # NoneRec
          /\ facilities[k].v.alert.id = AlertsSeen[j].id

\* C2: a facility that no alert refers to is operational and has no alert,
\* whatever the alerts and their order; it keeps the identity the inventory gave it
C2_UnreferencedOperational ==
    Marking =>
        \A k \in 1..Len(facilities) :
            LET f == facilities[k].v
            IN  ~Referred(f.id) =>
                    /\ f.status = "operational"
                    /\ f.alert = NoneRec
                    /\ f.id = facilities[k].k
                    /\ \E n \in 1..Len(facilities_data.data) :
                          /\ facilities_data.data[n].id = f.id
                          /\ stop_id_of(facilities_data.data[n]) = f.stop_id

\* an operational facility next to one out of service, and an alert about a
\* facility the inventory does not have
C2_Witness ==
    /\ Returned
    /\ \E k, m \in 1..Len(facilities) :
          /\ facilities[k].v.status = "operational"
          /\ facilities[m].v.status = "out_of_service"
    /\ \E i \in 1..Len(AlertsSeen) :
          /\ Refers(i, <<"9">>)
          /\ \A k \in 1..Len(facilities) : ~Refers(i, facilities[k].k)

IncludedStops ==
    {i \in 1..Len(facilities_data.included) : facilities_data.included[i].type = "stop"}

\* C3: no stop with a null latitude or longitude is among the stations, and the
\* two counts of a station are the numbers of its facilities by status
C3_StationAggregation ==
    (Returned /\ entry = "get_data_for_app") =>
        /\ \A n \in 1..Len(stations) :
              /\ stations[n].lat # None
              /\ stations[n].lon # None
              /\ stations[n].n_out_of_service =
                    Cardinality({k \in 1..Len(facilities) :
                        /\ facilities[k].v.stop_id = stations[n].id
                        /\ facilities[k].v.status = "out_of_service"})
              /\ stations[n].n_operational + stations[n].n_out_of_service =
                    Cardinality({k \in 1..Len(facilities) :
                        facilities[k].v.stop_id = stations[n].id})
        /\ \A i \in IncludedStops :
              LET st == facilities_data.included[i]
              IN  (st.attributes.latitude = None \/ st.attributes.longitude = None)
                     => \A n \in 1..Len(stations) : stations[n].id # st.id

\* a station with facilities of both statuses, and a stop left out for its
\* missing coordinates
C3_Witness ==
    /\ Returned /\ entry = "get_data_for_app"
    /\ \E n \in 1..Len(stations) :
          stations[n].n_operational > 0 /\ stations[n].n_out_of_service > 0
    /\ \E i \in IncludedStops :
          /\ facilities_data.included[i].attributes.latitude = None
          /\ \A n \in 1..Len(stations) :
                stations[n].id # facilities_data.included[i].id

----------------------------------------------------------------------------
(* Properties of fetch_route_alerts and generate_station_report *)

Answered(resp) == resp # NoneRec /\ ~transport_failed(resp) /\ ~raises_for_status(resp)

AlertsRequestAt(k) == requests[k].method = "GET" /\ requests[k].url = "/alerts"

RoutesRequestAt(k) == requests[k].method = "GET" /\ requests[k].url = "/routes"

\* C4: when route discovery succeeds with no routes, fetch_route_alerts returns the
\* empty list and no alerts request is issued; an alerts request is only ever issued
\* after a route-discovery answer that holds at least one route id
C4_NoRoutesNoAlertFetch ==
    /\ (Answered(routes_resp) /\ Get(routes_resp.body, "data", <<>>) = <<>>) =>
          /\ \A k \in 1..Len(requests) : ~AlertsRequestAt(k)
          /\ service_alerts = <<>>
          /\ entry = "fetch_route_alerts" => (pc = "done" /\ ret = <<>>)
    /\ \A k \in 1..Len(requests) :
          AlertsRequestAt(k) =>
              /\ Answered(routes_resp)
              /\ Len(Get(routes_resp.body, "data", <<>>)) >= 1
              /\ requests[k].filter # <<>>
              /\ \E j \in 1..(k - 1) : RoutesRequestAt(j)

\* route discovery answered with an empty list and fetch_route_alerts returned
C4_Witness ==
    /\ entry = "fetch_route_alerts"
    /\ pc = "done"
    /\ Answered(routes_resp)
    /\ "data" \in DOMAIN routes_resp.body
    /\ routes_resp.body.data = <<>>
    /\ ret = <<>>
    /\ Len(requests) = 1

\* the claim's condition for an alert of the route-alerts response to be returned
Retained(alert) ==
    LET attr == alert.attributes
        es == Get(attr, "informed_entity", <<>>)
    IN  /\ "effect" \in DOMAIN attr
        /\ attr.effect \in {"SHUTTLE", "SUSPENSION", "DETOUR", "SERVICE_CHANGE",
                            "STOP_CLOSURE", "STOP_MOVE", "STATION_ISSUE"}
        /\ attr.effect = "STATION_ISSUE" =>
              \E k \in 1..Len(es) : "stop" \in DOMAIN es[k] /\ es[k].stop = stop_id

FetchReturned == entry = "fetch_route_alerts" /\ pc = "done" /\ Answered(alerts_resp)

\* C5: the returned sequence holds exactly the alerts of the response whose effect
\* is one of the seven kept and which, when the effect is STATION_ISSUE, name the
\* queried stop in their informed entities; they are in input order
C5_ServiceAlertFilter ==
    FetchReturned =>
        LET kept == SelectSeq(Get(alerts_resp.body, "data", <<>>), Retained)
        IN  /\ Len(ret) = Len(kept)
            /\ \A i \in 1..Len(ret) :
                  /\ ret[i].header = kept[i].attributes.header
                  /\ ret[i].effect = kept[i].attributes.effect

\* a STATION_ISSUE alert of another stop is dropped, one of the queried stop is kept
C5_Witness ==
    /\ FetchReturned
    /\ \E i, j \in 1..Len(alerts_resp.body.data) :
          /\ i < j
          /\ alerts_resp.body.data[i].attributes.header = "at s2"
          /\ alerts_resp.body.data[j].attributes.header = "at s2 and s1"
    /\ stop_id = "s1"
    /\ Len(ret) = 1
    /\ ret[1].header = "at s2 and s1"

Generated(resp) == Answered(resp) /\ "response" \in DOMAIN resp.body

\* a failure of the generation backend: no connection, a timeout, a status that
\* is not 2xx, or a body without "response"
BackendFailed(resp) ==
    /\ ~IsNone(resp)
    /\ ~Generated(resp)
    /\ transport_failed(resp) => resp.transport \notin NotExceptions

\* C6: no failure makes generate_station_report raise: after every failure of the
\* generation backend the call returns a text that starts with "__error__: ", and
\* it returns the text of the backend only when the backend answered with one; no
\* Exception reaches the caller (what can leave the call is an interrupt of the
\* interpreter, KeyboardInterrupt or SystemExit, which is no failure of the backend)
C6_ReportNeverRaises ==
    entry = "generate_station_report" =>
        /\ pc = "raised" => exc \in NotExceptions
        /\ (pc \in {"done", "raised"} /\ BackendFailed(ollama_resp)) =>
              pc = "done" /\ Len(ret) >= 1 /\ Head(ret) = "__error__: "
        /\ pc = "done" =>
              IF Generated(ollama_resp)
              THEN ret = ollama_resp.body.response
              ELSE Len(ret) >= 1 /\ Head(ret) = "__error__: "

\* the backend timed out and the report is the tagged error text
C6_Witness ==
    /\ entry = "generate_station_report"
    /\ pc = "done"
    /\ ollama_resp = TransportFailure("ReadTimeout")
    /\ ret = <<"__error__: ", "ReadTimeout">>

----------------------------------------------------------------------------
(* Properties of _build_station_prompt *)

IndexOf(t, u) == CHOOSE i \in 1..Len(t) : t[i] = u

\* the text between "Facilities:\n" and "\n\nService alerts:\n"
FacilityBlock(p) ==
    SubSeq(p, IndexOf(p, "Facilities:\n") + 1, IndexOf(p, "\n\nService alerts:\n") - 1)

\* the positions at which an entry of the block ends: a line break followed by
\* the "- " that opens the next entry; with them the position before the first
\* character of the block and the position after its last
EntryBreaks(t) ==
    LET at == {i \in 1..(Len(t) - 1) : t[i] = "\n" /\ t[i + 1] = "- "}
        ordered == [k \in 1..Cardinality(at) |->
                       CHOOSE i \in at : Cardinality({j \in at : j < i}) = k - 1]
    IN  <<0>> \o ordered \o <<Len(t) + 1>>

\* the entries of a block, each with the lines that continue it
SplitEntries(t) ==
    LET cuts == EntryBreaks(t)
    IN  [k \in 1..(Len(cuts) - 1) |-> SubSeq(t, cuts[k] + 1, cuts[k + 1] - 1)]

\* the facility entries of a prompt, in order
FacilityLines(p) ==
    SelectSeq(SplitEntries(FacilityBlock(p)), LAMBDA l : l # <<>> /\ l[1] = "- ")

Labelled(lines, label) == {i \in 1..Len(lines) : \E k \in 1..Len(lines[i]) : lines[i][k] = label}

IsOperational(f) == f.status = "operational"

\* the claim's short identifier of a facility: lower-case type, a blank, the id
ShortId(f) == Lower(f.type) \o <<" ">> \o f.id

\* the instruction text of a facility, as rendered: the stripped description
Instructions(f) ==
    IF f.alert = NoneRec \/ f.alert.description = NoneText THEN <<>>
    ELSE Strip(f.alert.description)

InstructionsRendered(f) == f.status # "operational" /\ Instructions(f) # <<>>

WarningPrefix == "\n  WARNING: These instructions reference "

WarningSuffix == " which is ALSO out of service."

Warns(line, id) == Contains(line, <<WarningPrefix>> \o id \o <<WarningSuffix>>)

WarningCount(line) == Cardinality({k \in 1..Len(line) : line[k] = WarningPrefix})

Others(a) ==
    {b \in 1..Len(station_facilities) :
        b # a /\ station_facilities[b].status = "out_of_service"}

\* C7 as claimed: the entry of A carries a warning for every other out-of-service
\* facility whose short identifier occurs in A's instructions
C7_WarnsOfEveryReference ==
    \A n \in 1..Len(prompts) : \A a \in 1..Len(station_facilities) :
        InstructionsRendered(station_facilities[a]) =>
            \A b \in Others(a) :
                Contains(Instructions(station_facilities[a]),
                         ShortId(station_facilities[b]))
                    => Warns(FacilityLines(prompts[n])[a],
                             ShortId(station_facilities[b]))

\* the identifiers of other out-of-service facilities that A's instructions,
\* in lower case, contain
Mentioned(a) ==
    {ShortId(station_facilities[b]) : b \in
        {c \in Others(a) :
            /\ ShortId(station_facilities[c]) # ShortId(station_facilities[a])
            /\ Contains(Lower(Instructions(station_facilities[a])),
                        ShortId(station_facilities[c]))}}

\* C7, amended: when A's instructions mention other out-of-service facilities, the
\* entry of A carries exactly one warning and it names one of them; when they
\* mention none (A's own identifier does not count), it carries no warning
C7_WarnsOfOneReference ==
    \A a \in 1..Len(station_facilities) :
        InstructionsRendered(station_facilities[a]) =>
            LET mentioned == Mentioned(a)
            IN  \A n \in 1..Len(prompts) :
                    LET line == FacilityLines(prompts[n])[a]
                    IN  IF mentioned = {}
                        THEN WarningCount(line) = 0
                        ELSE /\ WarningCount(line) = 1
                             /\ \E id \in mentioned : Warns(line, id)

\* facility 3 is told to use elevators 1 and 2, both out of service, and its entry
\* warns of elevator 2 only
C7_Witness ==
    /\ Len(prompts) >= 1
    /\ Len(station_facilities) = 3
    /\ Mentioned(3) = {Lower(ELEVATOR) \o <<" ", "1">>, Lower(ELEVATOR) \o <<" ", "2">>}
    /\ Warns(FacilityLines(prompts[1])[3], Lower(ELEVATOR) \o <<" ", "2">>)
    /\ ~Warns(FacilityLines(prompts[1])[3], Lower(ELEVATOR) \o <<" ", "1">>)

\* C9 as claimed: calls with equal arguments return the same prompt
C9_SameArgumentsSamePrompt ==
    \A i, j \in 1..Len(prompts) : prompts[i] = prompts[j]

\* C10 as claimed: every out-of-service facility has a line, operational ones have
\* lines only when they are at most 6, and the lines number at most 6 more than
\* the out-of-service facilities
C10_OperationalLinesBounded ==
    \A n \in 1..Len(prompts) :
        LET lines == FacilityLines(prompts[n])
            n_operational == CountOf([i \in 1..Len(station_facilities) |->
                                         IsOperational(station_facilities[i])])
            n_out == CountOf([i \in 1..Len(station_facilities) |->
                                 IsOut(station_facilities[i])])
        IN  /\ Cardinality(Labelled(lines, "OUT OF SERVICE")) = n_out
            /\ n_operational <= 6 =>
                  Cardinality(Labelled(lines, "OPERATIONAL")) = n_operational
            /\ n_operational > 6 => Labelled(lines, "OPERATIONAL") = {}
            /\ Len(lines) <= n_out + 6

----------------------------------------------------------------------------
(* Properties of _format_duration *)

\* the UTC offset a suffix states, in seconds
OffsetSeconds(suffix) ==
    CASE suffix = "-05:00" -> 0 - 5 * 3600
      [] suffix = "+01:00" -> 3600
      [] OTHER -> 0

\* now - ts, ts being the moment the timestamp names
Elapsed == utcnow - (iso_timestamp.wall - OffsetSeconds(iso_timestamp.suffix))

Whole(n, unit) == IF n = 1 THEN <<"1", " ", unit>> ELSE <<ToString(n), " ", unit, "s">>

\* C8 as claimed: the text is chosen by the time elapsed since the timestamp, and
\* there is no value for an absent or unparseable timestamp
C8_DurationOfElapsedTime ==
    (entry = "_format_duration" /\ pc = "done") =>
        IF iso_timestamp.kind # "iso" THEN ret = NoneText
        ELSE IF Elapsed < 0 THEN ret = <<"starting soon">>
        ELSE IF Elapsed < 60 * 60 THEN ret = Whole(Elapsed \div 60, "minute")
        ELSE IF Elapsed < 24 * 3600 THEN ret = Whole(Elapsed \div 3600, "hour")
        ELSE IF Elapsed < 30 * 86400 THEN ret = Whole(Elapsed \div 86400, "day")
        ELSE IF Elapsed < 12 * (3044 * 864)
        THEN ret = Whole(Elapsed \div (3044 * 864), "month")
        ELSE ret[Len(ret)] = " years"

====
